---- MODULE Spec2Model ----
(***************************************************************************)
(* A model of Rawr.py, a wrapper around the praw Reddit client.            *)
(*                                                                         *)
(* The caller works on one object at a time (variable target): the Rawr    *)
(* facade under construction, a Subreddit record (get_posts) or a          *)
(* Submission record (get_comments).  get_posts and get_comments are       *)
(* Python generator functions: calling one returns a suspended generator   *)
(* and runs none of its body; each next() runs the body up to the next     *)
(* yield, to its end (StopIteration) or to an uncaught exception.          *)
(*                                                                         *)
(* Python values: None is <<>> and a present optional value v is <<v>>;    *)
(* a str that the code iterates (selftext) is a sequence of characters.    *)
(***************************************************************************)
EXTENDS Integers, Sequences, FiniteSets, TLC

\* ---------------------------------------------------------------- bounds
\* Longest listing (posts, or top-level comment forest) the remote returns.
MaxListing == 2
\* Most comments the resolution of one continuation placeholder returns.
MaxResolve == 2
\* Largest limit argument a caller passes.
MaxLimit == 2

\* ---------------------------------------------------------- Python values
None == <<>>
Some(v) == <<v>>
Val(o) == o[1]

SeqsUpTo(S, n) == UNION {[1..k -> S] : k \in 0..n}

IsPrefix(s, t) == Len(s) <= Len(t) /\ SubSeq(t, 1, Len(s)) = s

\* -------------------------------------------- datetime.utcfromtimestamp
\* The proleptic Gregorian date and time of day of a POSIX timestamp.
utcfromtimestamp(ts) ==
  LET days == ts \div 86400
      rem  == ts % 86400
      z    == days + 719468
      era  == z \div 146097
      doe  == z - era * 146097
      yoe  == (doe - doe \div 1460 + doe \div 36524 - doe \div 146096) \div 365
      doy  == doe - (365 * yoe + yoe \div 4 - yoe \div 100)
      mp   == (5 * doy + 2) \div 153
      d    == doy - (153 * mp + 2) \div 5 + 1
      m    == IF mp < 10 THEN mp + 3 ELSE mp - 9
      y    == yoe + era * 400 + (IF m <= 2 THEN 1 ELSE 0)
  IN  [year |-> y, month |-> m, day |-> d,
       hour |-> rem \div 3600, minute |-> (rem % 3600) \div 60, second |-> rem % 60]

\* --------------------------------------------------------------- "".join
\* "".join(s) over a str s: the concatenation of its one-character strings.
RECURSIVE join(_)
join(s) == IF s = <<>> THEN <<>> ELSE <<Head(s)>> \o join(Tail(s))

\* ------------------------------------------------------------ Award._make
Award_make(award) ==
  [name        |-> award.name,
   count       |-> award.count,
   coin_price  |-> award.coin_price,
   coin_reward |-> award.coin_reward,
   description |-> award.description]

Awards_make(all_awardings) ==
  [i \in 1..Len(all_awardings) |-> Award_make(all_awardings[i])]

\* ---------------------------------------------------------- Comment._make
Comment_make(comment) ==
  [text        |-> comment.body,
   author_name |-> IF comment.author = None THEN None ELSE Some(Val(comment.author).name),
   score       |-> comment.score,
   up_votes    |-> comment.ups,
   down_votes  |-> comment.downs,
   created     |-> utcfromtimestamp(comment.created_utc),
   awards      |-> Awards_make(comment.all_awardings),
   depth       |-> comment.depth,
   by_op       |-> comment.is_submitter,
   url         |-> comment.permalink]

\* ------------------------------------------------------- Submission._make
\* A plausible slip: the author's name is read without the None check (a
\* deleted account then shows under a placeholder name).
Submission_make_NoNoneCheck(submission) ==
  [_client       |-> submission,
   summary       |-> submission.title,
   text          |-> join(submission.selftext),
   author_name   |-> IF submission.author = None THEN Some("[deleted]")
                     ELSE Some(Val(submission.author).name),
   comment_count |-> submission.num_comments,
   score         |-> submission.score,
   up_votes      |-> submission.ups,
   down_votes    |-> submission.downs,
   flair         |-> submission.link_flair_text,
   created       |-> utcfromtimestamp(submission.created_utc),
   awards        |-> Awards_make(submission.all_awardings),
   url           |-> submission.permalink]

Submission_make(submission) ==
  [_client       |-> submission,
   summary       |-> submission.title,
   text          |-> join(submission.selftext),
   author_name   |-> IF submission.author = None THEN None
                     ELSE Some(Val(submission.author).name),
   comment_count |-> submission.num_comments,
   score         |-> submission.score,
   up_votes      |-> submission.ups,
   down_votes    |-> submission.downs,
   flair         |-> submission.link_flair_text,
   created       |-> utcfromtimestamp(submission.created_utc),
   awards        |-> Awards_make(submission.all_awardings),
   url           |-> submission.permalink]

\* ------------------------------------------------------------------ state
VARIABLES
  target,     \* the object the caller works on: "Rawr", "Subreddit" or "Submission"
  \* Rawr.__init__
  args,       \* the constructor's arguments client_id, secret, user_agent
  environ,    \* the process environment: CLIENT_ID, SECRET, USER_AGENT
  rawr_pc,    \* "start", "ok" (constructed) or "raised"
  rawr_err,   \* the credential a raised ValueError names, or None
  env_reads,  \* the environment variables os.getenv was called on, in order
  reddit,     \* the arguments praw.Reddit was constructed with, or None
  \* Subreddit.get_posts
  subreddit,  \* the posts the remote holds for the Subreddit handle
  posts,      \* the generator get_posts returned
  calls,      \* the calls made on the handle's hot/top/controversial/new
  \* Submission.get_comments
  forest,     \* the comment listing the remote holds for the Submission handle
  more,       \* what each continuation placeholder resolves to
  _client,    \* the Submission handle's comment_limit and comment_sort
  gens        \* the generators get_comments returned, by caller's name

rawr_vars == <<args, environ, rawr_pc, rawr_err, env_reads, reddit>>
posts_vars == <<subreddit, posts, calls>>
comments_vars == <<forest, more, _client, gens>>
vars == <<target, rawr_vars, posts_vars, comments_vars>>

\* ============================================================ Rawr.__init__
CredNames == <<"client_id", "secret", "user_agent">>
EnvNames == <<"CLIENT_ID", "SECRET", "USER_AGENT">>
ArgValues == {None, Some(""), Some("x")}
EnvValues == {None, Some(""), Some("e")}

\* A plausible slip: the environment wins over the explicit argument.
getenv_first(arg, name) ==
  IF environ[name] # None THEN environ[name] ELSE arg

\* os.getenv(NAME) if arg is None else arg
resolve(arg, name) ==
  IF arg = None THEN environ[name] ELSE arg

\* The os.getenv calls the three conditional expressions make.
getenv_calls(a) ==
  (IF a.client_id = None THEN <<"CLIENT_ID">> ELSE <<>>)
  \o (IF a.secret = None THEN <<"SECRET">> ELSE <<>>)
  \o (IF a.user_agent = None THEN <<"USER_AGENT">> ELSE <<>>)

\* A plausible slip: the checks in the opposite order.
missing_reversed(client_id, secret, user_agent) ==
  IF user_agent = None THEN Some("user_agent")
  ELSE IF secret = None THEN Some("secret")
  ELSE IF client_id = None THEN Some("client_id")
  ELSE None

\* The three `is None` checks: the credential the ValueError names, or None.
missing(client_id, secret, user_agent) ==
  IF client_id = None THEN Some("client_id")
  ELSE IF secret = None THEN Some("secret")
  ELSE IF user_agent = None THEN Some("user_agent")
  ELSE None

Rawr_init ==
  /\ target = "Rawr"
  /\ rawr_pc = "start"
  /\ LET client_id  == resolve(args.client_id, "CLIENT_ID")
         secret     == resolve(args.secret, "SECRET")
         user_agent == resolve(args.user_agent, "USER_AGENT")
         err        == missing(client_id, secret, user_agent)
     IN  /\ env_reads' = getenv_calls(args)
         /\ rawr_err' = err
         /\ IF err # None
            THEN /\ rawr_pc' = "raised"
                 /\ reddit' = None
            ELSE /\ rawr_pc' = "ok"
                 /\ reddit' = Some([client_id     |-> Val(client_id),
                                    client_secret |-> Val(secret),
                                    user_agent    |-> Val(user_agent)])
  /\ UNCHANGED <<target, args, environ, posts_vars, comments_vars>>

RawrIdle ==
  /\ args = [client_id |-> None, secret |-> None, user_agent |-> None]
  /\ environ = [CLIENT_ID |-> None, SECRET |-> None, USER_AGENT |-> None]
  /\ rawr_pc = "absent"
  /\ rawr_err = None
  /\ env_reads = <<>>
  /\ reddit = None

RawrInit ==
  /\ args \in [client_id : ArgValues, secret : ArgValues, user_agent : ArgValues]
  /\ environ \in [CLIENT_ID : EnvValues, SECRET : EnvValues, USER_AGENT : EnvValues]
  /\ rawr_pc = "start"
  /\ rawr_err = None
  /\ env_reads = <<>>
  /\ reddit = None

\* ======================================================= Subreddit.get_posts
\* The post objects the remote may hold (praw Submission objects).
Gold == [name |-> "Gold", count |-> 1, coin_price |-> 500, coin_reward |-> 100,
         description |-> "shiny"]
Silver == [name |-> "Silver", count |-> 2, coin_price |-> 100, coin_reward |-> 0,
           description |-> "nice"]
PostA == [id |-> "a", title |-> "first", selftext |-> <<"h", "i">>,
          author |-> Some([name |-> "alice"]), num_comments |-> 3, score |-> 5,
          ups |-> 7, downs |-> 2, link_flair_text |-> Some("news"),
          created_utc |-> 0, all_awardings |-> <<>>, permalink |-> "/r/x/a"]
PostB == [id |-> "b", title |-> "second", selftext |-> <<>>,
          author |-> None, num_comments |-> 0, score |-> -1,
          ups |-> 0, downs |-> 1, link_flair_text |-> None,
          created_utc |-> 951782399, all_awardings |-> <<Gold>>, permalink |-> "/r/x/b"]
PostC == [id |-> "c", title |-> "third", selftext |-> <<"o", "k", "!">>,
          author |-> Some([name |-> "bob"]), num_comments |-> 1, score |-> 2,
          ups |-> 2, downs |-> 0, link_flair_text |-> None,
          created_utc |-> 1700000000, all_awardings |-> <<Silver, Gold>>,
          permalink |-> "/r/x/c"]
Posts == {PostA, PostB, PostC}

Limits == {None} \cup {Some(n) : n \in 0..MaxLimit}
TimeFilters == {None, Some("all"), Some("day"), Some("decade")}
OrderBys == {"hot", "top", "controversial", "new", "rising", ""}

\* A plausible slip: the guard on "hot" with a time filter is missing.
no_hot_check(order_by, time_filter) == FALSE

\* if order_by == "hot" and time_filter is not None: raise ValueError
hot_with_time_filter(order_by, time_filter) ==
  order_by = "hot" /\ time_filter # None

\* A plausible slip: `if limit:` for `if limit is not None:` (a limit of 0 is dropped).
kwargs_truthy(limit, time_filter) ==
  LET keys == (IF limit # None /\ limit # Some(0) THEN {"limit"} ELSE {})
              \cup (IF time_filter # None THEN {"time_filter"} ELSE {})
  IN  [k \in keys |-> IF k = "limit" THEN Val(limit) ELSE Val(time_filter)]

\* kwargs = dict(); the two `is not None` assignments
kwargs(limit, time_filter) ==
  LET keys == (IF limit # None THEN {"limit"} ELSE {})
              \cup (IF time_filter # None THEN {"time_filter"} ELSE {})
  IN  [k \in keys |-> IF k = "limit" THEN Val(limit) ELSE Val(time_filter)]

\* The if/elif chain: the handle's method, or None where the else branch raises.
get_method(order_by) ==
  IF order_by = "hot" THEN Some("hot")
  ELSE IF order_by = "top" THEN Some("top")
  ELSE IF order_by = "controversial" THEN Some("controversial")
  ELSE IF order_by = "new" THEN Some("new")
  ELSE None

NoPosts ==
  [pc |-> "none", limit |-> None, time_filter |-> None, order_by |-> "",
   listing |-> <<>>, idx |-> 0, out |-> <<>>, err |-> None]

\* A generator function's call binds the arguments and runs none of the body.
new_posts(limit, time_filter, order_by) ==
  [pc |-> "created", limit |-> limit, time_filter |-> time_filter,
   order_by |-> order_by, listing |-> <<>>, idx |-> 0, out |-> <<>>, err |-> None]

\* for post in get_method(**kwargs): yield Submission._make(post), resumed at
\* element i of the listing.
posts_loop(g, i) ==
  IF i > Len(g.listing)
  THEN [g EXCEPT !.pc = "done", !.idx = i]
  ELSE [g EXCEPT !.pc = "suspended", !.idx = i,
                 !.out = Append(g.out, Submission_make(g.listing[i]))]

\* sub.get_posts(limit, time_filter, order_by)
get_posts(limit, time_filter, order_by) ==
  /\ target = "Subreddit"
  /\ posts.pc = "none"
  /\ posts' = new_posts(limit, time_filter, order_by)
  /\ UNCHANGED <<target, rawr_vars, subreddit, calls, comments_vars>>

\* next() on the generator: the body from its start, or from the last yield.
next_posts ==
  /\ target = "Subreddit"
  /\ \/ /\ posts.pc = "created"
        /\ hot_with_time_filter(posts.order_by, posts.time_filter)
        /\ posts' = [posts EXCEPT !.pc = "raised", !.err = Some("ValueError")]
        /\ UNCHANGED calls
     \/ /\ posts.pc = "created"
        /\ ~hot_with_time_filter(posts.order_by, posts.time_filter)
        /\ get_method(posts.order_by) = None
        /\ posts' = [posts EXCEPT !.pc = "raised", !.err = Some("ValueError")]
        /\ UNCHANGED calls
     \/ /\ posts.pc = "created"
        /\ ~hot_with_time_filter(posts.order_by, posts.time_filter)
        /\ get_method(posts.order_by) # None
        /\ calls' = Append(calls, [method |-> Val(get_method(posts.order_by)),
                                   kwargs |-> kwargs(posts.limit, posts.time_filter)])
        /\ posts' = posts_loop([posts EXCEPT !.listing = subreddit], 1)
     \/ /\ posts.pc = "suspended"
        /\ posts' = posts_loop(posts, posts.idx + 1)
        /\ UNCHANGED calls
  /\ UNCHANGED <<target, rawr_vars, subreddit, comments_vars>>

\* The collaborator fails (network, authentication, rate limit) in the listing
\* call or in a later fetch; nothing catches it.
fail_posts ==
  /\ target = "Subreddit"
  /\ \/ /\ posts.pc = "created"
        /\ ~hot_with_time_filter(posts.order_by, posts.time_filter)
        /\ get_method(posts.order_by) # None
        /\ calls' = Append(calls, [method |-> Val(get_method(posts.order_by)),
                                   kwargs |-> kwargs(posts.limit, posts.time_filter)])
     \/ /\ posts.pc = "suspended"
        /\ UNCHANGED calls
  /\ posts' = [posts EXCEPT !.pc = "raised", !.err = Some("CollaboratorError")]
  /\ UNCHANGED <<target, rawr_vars, subreddit, comments_vars>>

PostsIdle ==
  /\ subreddit = <<>>
  /\ posts = NoPosts
  /\ calls = <<>>

PostsInit ==
  /\ subreddit \in SeqsUpTo(Posts, MaxListing)
  /\ posts = NoPosts
  /\ calls = <<>>

\* ================================================== Submission.get_comments
\* The objects a comment listing holds: praw Comment objects and MoreComments
\* continuation placeholders.
CommentA == [kind |-> "Comment", body |-> "top level", author |-> None, score |-> 3,
             ups |-> 4, downs |-> 1, created_utc |-> 86399, all_awardings |-> <<>>,
             depth |-> 0, is_submitter |-> FALSE, permalink |-> "/r/x/a/1"]
CommentB == [kind |-> "Comment", body |-> "reply", author |-> Some([name |-> "alice"]),
             score |-> 1, ups |-> 1, downs |-> 0, created_utc |-> 86400,
             all_awardings |-> <<Gold>>, depth |-> 1, is_submitter |-> TRUE,
             permalink |-> "/r/x/a/2"]
CommentC == [kind |-> "Comment", body |-> "deeper", author |-> Some([name |-> "bob"]),
             score |-> 0, ups |-> 0, downs |-> 0, created_utc |-> 1709251199,
             all_awardings |-> <<>>, depth |-> 2, is_submitter |-> FALSE,
             permalink |-> "/r/x/a/3"]
ContinuationX == [kind |-> "MoreComments", id |-> "X"]
ContinuationY == [kind |-> "MoreComments", id |-> "Y"]
Placeholders == {ContinuationX, ContinuationY}
ForestItems == {CommentA, ContinuationX, ContinuationY}
HiddenComments == {CommentB, CommentC}
\* A remote call that raises where it would have returned a sequence.
Raises == <<[kind |-> "Error"]>>

CommentLimits == 0..MaxLimit
CommentSorts == {"confidence", "top"}
GenIds == {1, 2}

NoComments ==
  [pc |-> "none", limit |-> 0, order_by |-> "", listing |-> <<>>, idx |-> 0,
   inner |-> <<>>, out |-> <<>>, ops |-> <<>>, err |-> None]

\* A plausible slip: the handle is configured when get_comments is called,
\* as a plain function with an inner generator would do.
new_comments_eager(limit, order_by) ==
  [pc |-> "created", limit |-> limit, order_by |-> order_by, listing |-> <<>>,
   idx |-> 0, inner |-> <<>>, out |-> <<>>,
   ops |-> <<[op |-> "set_comment_limit", pos |-> 0, at |-> 0]>>, err |-> None]

\* A generator function's call binds the arguments and runs none of the body.
new_comments(limit, order_by) ==
  [pc |-> "created", limit |-> limit, order_by |-> order_by, listing |-> <<>>,
   idx |-> 0, inner |-> <<>>, out |-> <<>>, ops |-> <<>>, err |-> None]

\* isinstance(obj, praw.reddit.models.Comment)
isinstance_Comment(obj) == obj.kind = "Comment"

\* A plausible slip: placeholders are dropped, never resolved.
comments_skipped(obj) == <<>>

\* obj.comments(): the remote resolves the placeholder.
comments_of(obj) == more[obj]

\* process_comment
process_comment(comment) == Comment_make(comment)

\* A collaborator operation generator g performs, with the place in the listing
\* it is about and the number of records g has delivered so far.
op_of(g, name, i) == [op |-> name, pos |-> i, at |-> Len(g.out)]

\* for obj in comment_obj.list(): ..., resumed at element i of the listing.
RECURSIVE comments_loop(_, _)
comments_loop(g, i) ==
  IF i > Len(g.listing)
  THEN [g EXCEPT !.pc = "done", !.idx = i]
  ELSE IF isinstance_Comment(g.listing[i])
  THEN [g EXCEPT !.pc = "suspended", !.idx = i,
                 !.out = Append(g.out, process_comment(g.listing[i]))]
  ELSE LET r  == comments_of(g.listing[i])
           g1 == [g EXCEPT !.ops = Append(g.ops, op_of(g, "resolve", i)), !.idx = i]
       IN  IF r = Raises
           THEN [g1 EXCEPT !.pc = "raised", !.err = Some("CollaboratorError")]
           ELSE IF r = <<>>
           THEN comments_loop(g1, i + 1)
           ELSE [g1 EXCEPT !.pc = "suspended", !.inner = Tail(r),
                           !.out = Append(g.out, process_comment(Head(r)))]

\* The body from its start: configure the handle, fetch and list the comments.
comments_start(g) ==
  LET g1 == [g EXCEPT !.ops = <<op_of(g, "set_comment_limit", 0),
                                op_of(g, "set_comment_sort", 0),
                                op_of(g, "comments", 0)>>]
  IN  IF forest = Raises
      THEN [g1 EXCEPT !.pc = "raised", !.err = Some("CollaboratorError")]
      ELSE comments_loop([g1 EXCEPT !.listing = forest,
                                    !.ops = Append(g1.ops, op_of(g, "list", 0))], 1)

\* The body from the last yield: the rest of a resolved placeholder's comments,
\* then the next element of the listing.
comments_resume(g) ==
  IF g.inner # <<>>
  THEN [g EXCEPT !.inner = Tail(g.inner),
                 !.out = Append(g.out, process_comment(Head(g.inner)))]
  ELSE comments_loop(g, g.idx + 1)

\* s = submission.get_comments(limit, order_by)
get_comments(s, limit, order_by) ==
  /\ target = "Submission"
  /\ gens[s].pc = "none"
  /\ gens' = [gens EXCEPT ![s] = new_comments(limit, order_by)]
  /\ UNCHANGED <<target, rawr_vars, posts_vars, forest, more, _client>>

\* next(s)
next_comments(s) ==
  /\ target = "Submission"
  /\ \/ /\ gens[s].pc = "created"
        /\ _client' = [comment_limit |-> Some(gens[s].limit),
                       comment_sort  |-> Some(gens[s].order_by)]
        /\ gens' = [gens EXCEPT ![s] = comments_start(gens[s])]
     \/ /\ gens[s].pc = "suspended"
        /\ gens' = [gens EXCEPT ![s] = comments_resume(gens[s])]
        /\ UNCHANGED _client
  /\ UNCHANGED <<target, rawr_vars, posts_vars, forest, more>>

CommentsIdle ==
  /\ forest = <<>>
  /\ more = [p \in Placeholders |-> <<>>]
  /\ _client = [comment_limit |-> None, comment_sort |-> None]
  /\ gens = [s \in GenIds |-> NoComments]

CommentsInit ==
  /\ forest \in SeqsUpTo(ForestItems, MaxListing) \cup {Raises}
  /\ more \in [Placeholders -> SeqsUpTo(HiddenComments, MaxResolve) \cup {Raises}]
  /\ _client = [comment_limit |-> None, comment_sort |-> None]
  /\ gens = [s \in GenIds |-> NoComments]

\* ========================================================== specifications
Init ==
  \/ target = "Rawr" /\ RawrInit /\ PostsIdle /\ CommentsIdle
  \/ target = "Subreddit" /\ RawrIdle /\ PostsInit /\ CommentsIdle
  \/ target = "Submission" /\ RawrIdle /\ PostsIdle /\ CommentsInit

Next ==
  \/ Rawr_init
  \/ \E limit \in Limits, time_filter \in TimeFilters, order_by \in OrderBys :
       get_posts(limit, time_filter, order_by)
  \/ next_posts
  \/ fail_posts
  \/ \E limit \in CommentLimits, order_by \in CommentSorts :
       get_comments(1, limit, order_by)
  \/ next_comments(1)

Spec == Init /\ [][Next]_vars

\* Two sequences obtained from one Submission whose listing is
\* [CommentA, ContinuationX], ContinuationX resolving to [CommentB, CommentC].
InitShared ==
  /\ target = "Submission" /\ RawrIdle /\ PostsIdle
  /\ forest = <<CommentA, ContinuationX>>
  /\ more = [p \in Placeholders |->
               IF p = ContinuationX THEN <<CommentB, CommentC>> ELSE <<>>]
  /\ _client = [comment_limit |-> None, comment_sort |-> None]
  /\ gens = [s \in GenIds |-> NoComments]

NextShared ==
  \E s \in GenIds :
    \/ \E limit \in CommentLimits, order_by \in CommentSorts :
         get_comments(s, limit, order_by)
    \/ next_comments(s)

SpecShared == InitShared /\ [][NextShared]_vars

\* ================================================================== claims
\* The POSIX timestamp of a date and time of day (the inverse conversion).
timestamp_of(dt) ==
  LET y   == IF dt.month <= 2 THEN dt.year - 1 ELSE dt.year
      era == y \div 400
      yoe == y - era * 400
      mp  == IF dt.month > 2 THEN dt.month - 3 ELSE dt.month + 9
      doy == (153 * mp + 2) \div 5 + dt.day - 1
      doe == yoe * 365 + yoe \div 4 - yoe \div 100 + doy
  IN  (era * 146097 + doe - 719468) * 86400
      + dt.hour * 3600 + dt.minute * 60 + dt.second

ValidDateTime(dt) ==
  /\ dt.month \in 1..12 /\ dt.day \in 1..31
  /\ dt.hour \in 0..23 /\ dt.minute \in 0..59 /\ dt.second \in 0..59

AwardsEqual(awards, all_awardings) ==
  /\ Len(awards) = Len(all_awardings)
  /\ \A j \in 1..Len(awards) :
       /\ awards[j].name = all_awardings[j].name
       /\ awards[j].count = all_awardings[j].count
       /\ awards[j].coin_price = all_awardings[j].coin_price
       /\ awards[j].coin_reward = all_awardings[j].coin_reward
       /\ awards[j].description = all_awardings[j].description

\* Record rec shows post's fields.
ShowsPost(rec, post) ==
  /\ rec._client = post
  /\ rec.summary = post.title
  /\ rec.text = post.selftext
  /\ (rec.author_name = None) <=> (post.author = None)
  /\ post.author # None => rec.author_name = Some(Val(post.author).name)
  /\ rec.comment_count = post.num_comments
  /\ rec.score = post.score
  /\ rec.up_votes = post.ups
  /\ rec.down_votes = post.downs
  /\ rec.flair = post.link_flair_text
  /\ ValidDateTime(rec.created)
  /\ timestamp_of(rec.created) = post.created_utc
  /\ AwardsEqual(rec.awards, post.all_awardings)
  /\ rec.url = post.permalink

InvalidArguments(order_by, time_filter) ==
  \/ order_by = "hot" /\ time_filter # None
  \/ order_by \notin {"hot", "top", "controversial", "new"}

\* C1: once the body of get_posts has run, it has raised ValueError exactly when
\* order_by is "hot" with a time_filter, or order_by is none of hot, top,
\* controversial, new; and when it has, no listing method of the handle has
\* been called.
C1_InvalidArgument ==
  (target = "Subreddit" /\ posts.pc \notin {"none", "created"}) =>
    IF InvalidArguments(posts.order_by, posts.time_filter)
    THEN posts.pc = "raised" /\ posts.err = Some("ValueError") /\ calls = <<>>
    ELSE posts.err # Some("ValueError")

C1_Witness ==
  /\ posts.pc = "raised" /\ posts.err = Some("ValueError")
  /\ posts.order_by = "hot" /\ posts.time_filter = Some("day")
  /\ posts.limit = Some(1) /\ calls = <<>>

\* C2: the call get_posts(...) itself fails on invalid arguments: it never
\* returns a sequence whose first element is still to be requested.
C2_RaisedByTheCall ==
  (target = "Subreddit" /\ posts.pc = "created") =>
    ~InvalidArguments(posts.order_by, posts.time_filter)

\* The records the listing element obj gives rise to.
Expand(obj) ==
  IF obj.kind = "Comment" THEN <<Comment_make(obj)>>
  ELSE IF more[obj] = Raises THEN <<>>
  ELSE [j \in 1..Len(more[obj]) |-> Comment_make(more[obj][j])]

RECURSIVE Flat(_)
Flat(listing) ==
  IF listing = <<>> THEN <<>> ELSE Expand(Head(listing)) \o Flat(Tail(listing))

\* C3: what get_comments has yielded is always a prefix of the listing with each
\* comment replaced by its record and each placeholder by the records of the
\* comments it resolves to, and is all of it once the iteration has ended.
C3_Flattening ==
  (target = "Submission" /\ gens[1].pc \in {"suspended", "done", "raised"}
     /\ forest # Raises) =>
    /\ IsPrefix(gens[1].out, Flat(forest))
    /\ gens[1].pc = "done" => gens[1].out = Flat(forest)

C3_Witness ==
  /\ gens[1].pc = "done"
  /\ forest = <<CommentA, ContinuationX>>
  /\ more[ContinuationX] = <<CommentB, CommentC>>
  /\ gens[1].out = <<Comment_make(CommentA), Comment_make(CommentB), Comment_make(CommentC)>>

\* C4: the records get_posts has yielded show, one for one and in order, the
\* posts the handle's listing yields, author_name None exactly for a post
\* without author; once the iteration has ended there are as many.
C4_PostsInOrder ==
  target = "Subreddit" =>
    /\ Len(posts.out) <= Len(subreddit)
    /\ \A i \in 1..Len(posts.out) : ShowsPost(posts.out[i], subreddit[i])
    /\ posts.pc = "done" => Len(posts.out) = Len(subreddit)

C4_Witness ==
  /\ posts.pc = "done"
  /\ subreddit = <<PostB, PostC>>
  /\ Len(posts.out) = 2
  /\ posts.out[1].author_name = None
  /\ posts.out[2].author_name = Some("bob")

Unresolved == {i \in 1..3 : args[CredNames[i]] = None /\ environ[EnvNames[i]] = None}
First(S) == CHOOSE i \in S : \A j \in S : i <= j

\* C5: the constructor raises exactly when some credential is given neither as
\* argument nor in the environment; the error names the first such credential
\* in the order client_id, secret, user_agent, and praw.Reddit is not built.
C5_MissingCredential ==
  (target = "Rawr" /\ rawr_pc # "start") =>
    IF Unresolved # {}
    THEN /\ rawr_pc = "raised"
         /\ rawr_err = Some(CredNames[First(Unresolved)])
         /\ reddit = None
    ELSE rawr_pc = "ok" /\ rawr_err = None /\ reddit # None

C5_Witness ==
  /\ rawr_pc = "raised"
  /\ Unresolved = {1, 2, 3}
  /\ rawr_err = Some("client_id")
  /\ reddit = None

Range(f) == {f[i] : i \in DOMAIN f}
Handed == <<"client_id", "client_secret", "user_agent">>

\* C6: the environment variable of a credential is read exactly when its
\* argument is None; a given argument is the value praw.Reddit receives,
\* whatever the environment holds; with all three given the constructor
\* succeeds and reads no environment variable.
C6_ExplicitPreferred ==
  (target = "Rawr" /\ rawr_pc # "start") =>
    /\ \A i \in 1..3 : EnvNames[i] \in Range(env_reads) <=> args[CredNames[i]] = None
    /\ rawr_pc = "ok" =>
         \A i \in 1..3 : args[CredNames[i]] # None =>
                           Val(reddit)[Handed[i]] = Val(args[CredNames[i]])
    /\ (\A i \in 1..3 : args[CredNames[i]] # None) => rawr_pc = "ok" /\ env_reads = <<>>

C6_Witness ==
  /\ rawr_pc = "ok"
  /\ \A i \in 1..3 : args[CredNames[i]] = Some("x") /\ environ[EnvNames[i]] = Some("e")
  /\ env_reads = <<>>
  /\ Val(reddit) = [client_id |-> "x", client_secret |-> "x", user_agent |-> "x"]

\* C7: get_comments(limit=n) never yields more than n records.
C7_LimitBoundsCount ==
  target = "Submission" => Len(gens[1].out) <= gens[1].limit

Resolves(g) == {k \in 1..Len(g.ops) : g.ops[k].op = "resolve"}

\* C8: a sequence whose first element was never requested has performed no
\* collaborator operation; the placeholder at position i is resolved only
\* when every record of the positions before i has been delivered, and only
\* if the caller pulled that far.
C8_PullBased ==
  /\ (target = "Subreddit" /\ posts.pc \in {"none", "created"}) => calls = <<>>
  /\ target = "Submission" =>
       LET g == gens[1] IN
       /\ g.pc \in {"none", "created"} =>
            g.ops = <<>> /\ _client = [comment_limit |-> None, comment_sort |-> None]
       /\ \A k \in Resolves(g) :
            LET before == Flat(SubSeq(g.listing, 1, g.ops[k].pos - 1)) IN
            /\ g.ops[k].pos <= g.idx
            /\ g.listing[g.ops[k].pos] \in Placeholders
            /\ g.ops[k].at = Len(before)
            /\ SubSeq(g.out, 1, g.ops[k].at) = before
       /\ \A i \in 1..Len(g.listing) :
            (g.listing[i] \in Placeholders /\ i > g.idx) =>
              \A k \in Resolves(g) : g.ops[k].pos # i

C8_Witness ==
  /\ gens[1].pc = "suspended"
  /\ forest = <<CommentA, ContinuationX>>
  /\ Len(gens[1].out) = 2
  /\ \E k \in Resolves(gens[1]) : gens[1].ops[k].pos = 2 /\ gens[1].ops[k].at = 1

\* C9: while one sequence of a Submission is in mid-iteration, a step of another
\* sequence of the same Submission changes neither the state the handle
\* exposes nor the first sequence.
C9_NoSharedState ==
  [][\A s \in GenIds :
       (gens'[s] # gens[s] /\ \E t \in GenIds \ {s} : gens[t].pc = "suspended") =>
         /\ _client' = _client
         /\ \A t \in GenIds \ {s} : gens'[t] = gens[t]]_vars

\* C10: once the body of get_posts has run on valid arguments, the handle has
\* received exactly one call, of the method order_by names, with limit in the
\* bag exactly when it is not None and time_filter likewise, values unchanged,
\* whatever the time_filter is.
C10_Dispatch ==
  (target = "Subreddit" /\ posts.pc \in {"suspended", "done", "raised"}
     /\ ~InvalidArguments(posts.order_by, posts.time_filter)) =>
    /\ Len(calls) = 1
    /\ calls[1].method = posts.order_by
    /\ LET kw == calls[1].kwargs IN
       /\ DOMAIN kw \subseteq {"limit", "time_filter"}
       /\ "limit" \in DOMAIN kw <=> posts.limit # None
       /\ "limit" \in DOMAIN kw => kw["limit"] = Val(posts.limit)
       /\ "time_filter" \in DOMAIN kw <=> posts.time_filter # None
       /\ "time_filter" \in DOMAIN kw => kw["time_filter"] = Val(posts.time_filter)

C10_Witness ==
  /\ posts.pc = "done"
  /\ posts.order_by = "top" /\ posts.limit = None /\ posts.time_filter = Some("decade")
  /\ Len(calls) = 1
  /\ calls[1].method = "top"
  /\ DOMAIN calls[1].kwargs = {"time_filter"}
  /\ calls[1].kwargs["time_filter"] = "decade"

====
